---- MODULE Spec2Model ----
(***************************************************************************)
(* Model of bevy_prototype_lyon's plugin module (src/src/plugin.rs): the   *)
(* ShapePlugin schedule, ShapeSprite::draw, and the shapesprite_maker      *)
(* system that replaces every ShapeDescriptor by a SpriteBundle.           *)
(***************************************************************************)
EXTENDS Integers, Sequences, FiniteSets, TLC

\* ------------------------------------------------------------------ bounds
NumEntities == 2
MaxRequests == 2
MaxFrames == 2

Entities == 1..NumEntities

\* ------------------------------------------------------------------ stages
UPDATE == "update"
POST_UPDATE == "post_update"
SHAPE == "shape"

\* The stages of the application before the plugin is built.
DefaultStages == <<UPDATE, POST_UPDATE>>

RECURSIVE StageIndex(_, _)
StageIndex(stages, name) ==
    IF stages = <<>> THEN 1
    ELSE IF Head(stages) = name THEN 1
    ELSE 1 + StageIndex(Tail(stages), name)

add_stage_after(stages, target, name) ==
    LET i == StageIndex(stages, target)
    IN  SubSeq(stages, 1, i) \o <<name>> \o SubSeq(stages, i + 1, Len(stages))

add_stage_before(stages, target, name) ==
    LET i == StageIndex(stages, target)
    IN  SubSeq(stages, 1, i - 1) \o <<name>> \o SubSeq(stages, i, Len(stages))

ScheduleShapeFirst == add_stage_before(DefaultStages, UPDATE, SHAPE)

\* ShapePlugin::build: the SHAPE stage is added right after UPDATE.
Schedule == add_stage_after(DefaultStages, UPDATE, SHAPE)

\* ------------------------------------------------------------------ data
Rectangle(w, h) == [width |-> w, height |-> h]

Fill(options) == [tag |-> "Fill", options |-> options]
Stroke(options) == [tag |-> "Stroke", options |-> options]
NoMode == [tag |-> "None", options |-> 0]

IDENTITY == "identity"

\* The absent ShapeDescriptor component / absent SpriteBundle components.
NoDesc ==
    [shape |-> Rectangle(0, 0), material |-> 0, mode |-> NoMode, transform |-> "none"]

NoBundle == [material |-> 0, mesh |-> 0, size |-> <<0, 0>>, transform |-> "none"]

\* The draw calls user systems make: (shape, material, mode, transform).
DrawInputs ==
    { [shape |-> Rectangle(2, 1), material |-> 1, mode |-> Fill(1), transform |-> IDENTITY],
      [shape |-> Rectangle(2, 1), material |-> 2, mode |-> Stroke(2), transform |-> "t1"],
      [shape |-> Rectangle(0, 0), material |-> 1, mode |-> Fill(2), transform |-> IDENTITY] }

\* ShapeSprite::draw: the descriptor owns a clone of the shape.
draw(self, material, mode, transform) ==
    [shape |-> [width |-> self.width, height |-> self.height],
     material |-> material, mode |-> mode, transform |-> transform]

\* Rectangle's generate_path: add_rectangle(Rect(origin, (width, height))).
generate_path(shape) ==
    << <<0, 0>>, <<shape.width, 0>>, <<shape.width, shape.height>>, <<0, shape.height>> >>

\* ------------------------------------------------------------------ tessellation
EmptyBuffers == [vertices |-> <<>>, indices |-> <<>>]

IsDegenerate(path) == \A i \in 1..Len(path) : path[i] = path[1]

RECURSIVE SumCoord(_, _)
SumCoord(path, k) ==
    IF path = <<>> THEN 0 ELSE Head(path)[k] + SumCoord(Tail(path), k)

\* Outward direction of coordinate k of point p, relative to the path's centroid.
Outward(path, p, k) == IF p[k] * Len(path) >= SumCoord(path, k) THEN 1 ELSE -1

\* BuffersBuilder: the new geometry is appended to the buffers, its indices
\* offset by the number of vertices already there.
AddGeometry(buffers, verts, idx) ==
    [vertices |-> buffers.vertices \o verts,
     indices |-> buffers.indices
                 \o [i \in 1..Len(idx) |-> idx[i] + Len(buffers.vertices)]]

\* Triangle fan over n vertices: (0, t, t+1) for t = 1..n-2.
FanIndices(n) ==
    [k \in 1..(3 * (n - 2)) |->
        LET t == ((k - 1) \div 3) + 1
            pos == (k - 1) % 3
        IN  IF pos = 0 THEN 0 ELSE IF pos = 1 THEN t ELSE t + 1]

\* Two vertices per path point: the outer one (2i-2) and the inner one (2i-1).
StrokeVertices(path, width) ==
    [k \in 1..(2 * Len(path)) |->
        LET p == path[(k + 1) \div 2]
            s == IF k % 2 = 1 THEN width ELSE -width
        IN  <<p[1] + s * Outward(path, p, 1), p[2] + s * Outward(path, p, 2)>>]

\* Two triangles per edge of the closed path.
StrokeIndices(n) ==
    [k \in 1..(6 * n) |->
        LET e == (k - 1) \div 6
            pos == (k - 1) % 6
            a == 2 * e
            b == 2 * e + 1
            c == 2 * ((e + 1) % n)
            d == 2 * ((e + 1) % n) + 1
        IN  IF pos = 0 THEN a ELSE IF pos = 1 THEN b ELSE IF pos = 2 THEN c
            ELSE IF pos = 3 THEN b ELSE IF pos = 4 THEN d ELSE c]

\* The scratch state of a tessellator after it is reset and loaded with a path:
\* what the previous call left in it is discarded.
SetPath(scratch, path) == path

\* FillTessellator::tessellate_path: Err on a degenerate path, else the
\* triangulated interior of the loaded path is added to the buffers.
FillTessellate(scratch, path, options, buffers) ==
    LET events == SetPath(scratch, path)
    IN  IF IsDegenerate(events)
        THEN [ok |-> FALSE, buffers |-> buffers, scratch |-> events]
        ELSE [ok |-> TRUE, scratch |-> events,
              buffers |-> AddGeometry(buffers, events, FanIndices(Len(events)))]

\* StrokeTessellator::tessellate_path: Err on a degenerate path, else the
\* triangulated border of the loaded path is added to the buffers.
StrokeTessellate(scratch, path, options, buffers) ==
    LET events == SetPath(scratch, path)
    IN  IF IsDegenerate(events)
        THEN [ok |-> FALSE, buffers |-> buffers, scratch |-> events]
        ELSE [ok |-> TRUE, scratch |-> events,
              buffers |-> AddGeometry(buffers, StrokeVertices(events, options),
                                      StrokeIndices(Len(events)))]

\* build_mesh: a triangle-list mesh with 3D positions from the buffers.
build_mesh(b) ==
    [topology |-> "TriangleList",
     positions |-> [i \in 1..Len(b.vertices) |-> <<b.vertices[i][1], b.vertices[i][2], 0>>],
     indices |-> b.indices]

\* ------------------------------------------------------------------ state
VARIABLES
    frame,        \* number of the current frame
    stageIdx,     \* position in Schedule of the current stage
    pc,           \* "stage" | "loop" | "tess" | "incall" | "built" | "apply" | "panicked"
    world,        \* component store: entity -> [desc, bundle]
    meshes,       \* Assets<Mesh>: handle -> mesh
    tessellator,  \* the Tessellator resource: scratch state of fill and stroke
    commands,     \* the system's queued Commands
    todo,         \* entities the query iteration has not yielded yet
    cur,          \* loop variable `entity` (0 outside an iteration)
    path,         \* local `path`
    buffers,      \* local `buffers`
    active,       \* tessellate_path calls in progress
    descReq,      \* history: request id of the descriptor each entity holds
    requests,     \* history: request id -> the draw call and when it was attached
    calls,        \* history: tessellate_path calls
    meshReq,      \* history: handle -> request id the mesh was built for
    applied,      \* history: commands applied in the current pass
    passStart,    \* history: world and descReq when the current pass started
    passHandles,  \* history: handles meshes.add returned in the current pass
    materialized, \* history: requests whose SpriteBundle was inserted
    consumed,     \* history: requests whose ShapeDescriptor was removed
    shapeRuns,    \* history: runs of shapesprite_maker in the current frame
    heap,         \* shape objects by address; address 1 is the user's shape
    pending,      \* the descriptor the last draw call returned (if any)
    drawn         \* history: arguments and receiver of the last draw call

mainVars ==
    <<frame, stageIdx, pc, world, meshes, tessellator, commands, todo, cur, path,
      buffers, active, descReq, requests, calls, meshReq, applied, passStart,
      passHandles, materialized, consumed, shapeRuns>>

vars == <<mainVars, heap, pending, drawn>>

locals == <<todo, cur, path, buffers>>
drawVars == <<heap, pending, drawn>>
history == <<descReq, requests, calls, meshReq, applied, passStart, passHandles,
             materialized, consumed, shapeRuns>>

Stage == Schedule[stageIdx]

\* No descriptor returned by draw is outstanding; no draw call was made.
NoPending == [shape |-> 0, material |-> 0, mode |-> NoMode, transform |-> "none"]
NoDrawn == [self |-> Rectangle(0, 0), after |-> Rectangle(0, 0), material |-> 0,
            mode |-> NoMode, transform |-> "none"]

\* Tessellator::new
TessellatorNew == [fill |-> <<>>, stroke |-> <<>>]

\* The application after ShapePlugin::build, before the first frame.
InitWorld ==
    /\ frame = 1
    /\ stageIdx = 1
    /\ pc = "stage"
    /\ world = [e \in Entities |-> [desc |-> NoDesc, bundle |-> NoBundle]]
    /\ meshes = <<>>
    /\ tessellator = TessellatorNew
    /\ commands = <<>>
    /\ todo = {}
    /\ cur = 0
    /\ path = <<>>
    /\ buffers = EmptyBuffers
    /\ active = {}
    /\ descReq = [e \in Entities |-> 0]
    /\ requests = <<>>
    /\ calls = <<>>
    /\ meshReq = <<>>
    /\ applied = <<>>
    /\ passStart = [world |-> world, descReq |-> descReq, meshes |-> 0]
    /\ passHandles = {}
    /\ materialized = {}
    /\ consumed = {}
    /\ shapeRuns = 0

Init ==
    /\ InitWorld
    /\ heap = <<Rectangle(1, 1)>>
    /\ pending = NoPending
    /\ drawn = NoDrawn

\* ------------------------------------------------------------------ helpers of the system
QueryMatchesAny(components) == TRUE

\* Query<(Entity, &ShapeDescriptor)>: the entities that hold a ShapeDescriptor.
QueryMatches(components) == components.desc # NoDesc

BuffersReused == buffers

\* Buffers::new()
BuffersNew == EmptyBuffers

TessellatorForSwapped(mode) == IF mode.tag = "Fill" THEN "stroke" ELSE "fill"

\* match shape_descriptor.mode: Fill uses tessellator.fill, Stroke tessellator.stroke.
TessellatorFor(mode) == IF mode.tag = "Fill" THEN "fill" ELSE "stroke"

UnwrapIgnored(result) == FALSE

\* .unwrap() on the tessellation result panics on Err.
UnwrapPanics(result) == ~result.ok

SpriteBundleDefaultTransform(desc, handle) ==
    [material |-> desc.material, mesh |-> handle, size |-> <<1, 1>>,
     transform |-> IDENTITY]

\* The SpriteBundle built from the descriptor and the registered mesh.
SpriteBundleOf(desc, handle) ==
    [material |-> desc.material, mesh |-> handle, size |-> <<1, 1>>,
     transform |-> desc.transform]

HandleDefault(ms) == 1

\* meshes.add: the handle of the mesh being added is a new one.
NewHandle(ms) == Len(ms) + 1

InsertSkipped(entity, bundle) == <<>>

\* commands.insert(entity, sprite_bundle)
InsertCommand(entity, bundle) ==
    << [op |-> "insert", entity |-> entity, bundle |-> bundle] >>

InsertIfAbsent(components, bundle) ==
    IF components.bundle = NoBundle
    THEN [components EXCEPT !.bundle = bundle]
    ELSE components

\* The insert command applied: the bundle's components are set on the
\* entity, replacing the ones it already has.
ApplyInsert(components, bundle) == [components EXCEPT !.bundle = bundle]

RemoveSkipped(entity) == <<>>

\* commands.remove_one::<ShapeDescriptor>(entity)
RemoveCommand(entity) ==
    << [op |-> "remove_one", entity |-> entity, bundle |-> NoBundle] >>

BodyOverlapped == pc \in {"loop", "incall"}

\* The for loop is sequential: the next entity is taken only when the body
\* has run to its end for the previous one.
BodyFinished == pc = "loop"

\* ------------------------------------------------------------------ actions
\* A user system spawns/inserts the descriptor returned by draw.
UserDraw(e, inp) ==
    /\ pc = "stage"
    /\ Stage # SHAPE
    /\ Len(requests) < MaxRequests
    /\ LET d == draw(inp.shape, inp.material, inp.mode, inp.transform)
       IN  /\ world' = [world EXCEPT ![e].desc = d]
           /\ requests' = Append(requests,
                  [entity |-> e, desc |-> d, frame |-> frame, stage |-> Stage])
    /\ descReq' = [descReq EXCEPT ![e] = Len(requests) + 1]
    /\ UNCHANGED <<frame, stageIdx, pc, meshes, tessellator, commands, locals, calls,
                   meshReq, applied, passStart, passHandles, materialized, consumed,
                   shapeRuns>>
    /\ UNCHANGED <<active, drawVars>>

\* The SHAPE stage runs shapesprite_maker: the query is evaluated.
SystemStart ==
    /\ pc = "stage"
    /\ Stage = SHAPE
    /\ pc' = "loop"
    /\ todo' = {e \in Entities : QueryMatches(world[e])}
    /\ passStart' = [world |-> world, descReq |-> descReq, meshes |-> Len(meshes)]
    /\ passHandles' = {}
    /\ applied' = <<>>
    /\ shapeRuns' = shapeRuns + 1
    /\ UNCHANGED <<frame, stageIdx, world, meshes, tessellator, commands, cur, path,
                   buffers, descReq, requests, calls, meshReq, materialized, consumed>>
    /\ UNCHANGED <<active, drawVars>>

\* for (entity, shape_descriptor) in query.iter(): generate_path, Buffers::new.
LoopNext ==
    /\ BodyFinished
    /\ \E e \in todo :
        /\ todo' = todo \ {e}
        /\ cur' = e
        /\ path' = generate_path(world[e].desc.shape)
    /\ buffers' = BuffersNew
    /\ pc' = "tess"
    /\ UNCHANGED <<frame, stageIdx, world, meshes, tessellator, commands, history>>
    /\ UNCHANGED <<active, drawVars>>

\* tessellate_path is entered on the tessellator the mode selects.
TessellateCall ==
    /\ pc = "tess"
    /\ active' = active \cup
          {[entity |-> cur, engine |-> TessellatorFor(world[cur].desc.mode)]}
    /\ pc' = "incall"
    /\ UNCHANGED <<frame, stageIdx, world, meshes, tessellator, commands, locals,
                   history, drawVars>>

\* tessellate_path returns; .unwrap() takes its result.
Tessellate ==
    /\ pc = "incall"
    /\ LET d == world[cur].desc
           engine == TessellatorFor(d.mode)
           res == IF engine = "fill"
                  THEN FillTessellate(tessellator.fill, path, d.mode.options, buffers)
                  ELSE StrokeTessellate(tessellator.stroke, path, d.mode.options, buffers)
       IN  /\ tessellator' = [tessellator EXCEPT ![engine] = res.scratch]
           /\ active' = active \ {[entity |-> cur, engine |-> engine]}
           /\ calls' = Append(calls,
                  [engine |-> engine, entity |-> cur, req |-> descReq[cur],
                   options |-> d.mode.options, ok |-> res.ok, frame |-> frame])
           /\ buffers' = res.buffers
           /\ pc' = IF UnwrapPanics(res) THEN "panicked" ELSE "built"
    /\ UNCHANGED <<frame, stageIdx, world, meshes, commands, todo, cur, path, descReq,
                   requests, meshReq, applied, passStart, passHandles, materialized,
                   consumed, shapeRuns>>
    /\ UNCHANGED drawVars

\* meshes.add(build_mesh(&buffers)); the bundle; commands.insert; commands.remove_one.
Finish ==
    /\ pc = "built"
    /\ LET handle == NewHandle(meshes)
           bundle == SpriteBundleOf(world[cur].desc, handle)
       IN  /\ meshes' = Append(meshes, build_mesh(buffers))
           /\ meshReq' = Append(meshReq, descReq[cur])
           /\ passHandles' = passHandles \cup {handle}
           /\ commands' = commands \o InsertCommand(cur, bundle) \o RemoveCommand(cur)
    /\ pc' = "loop"
    /\ UNCHANGED <<frame, stageIdx, world, tessellator, locals, descReq, requests, calls,
                   applied, passStart, materialized, consumed, shapeRuns>>
    /\ UNCHANGED <<active, drawVars>>

\* The iteration is over: the system returns and its locals are dropped.
SystemReturn ==
    /\ pc = "loop"
    /\ todo = {}
    /\ pc' = "apply"
    /\ cur' = 0
    /\ path' = <<>>
    /\ buffers' = EmptyBuffers
    /\ UNCHANGED <<frame, stageIdx, world, meshes, tessellator, commands, todo, history>>
    /\ UNCHANGED <<active, drawVars>>

\* The stage applies the queued commands to the world, in order.
ApplyCommand ==
    /\ pc = "apply"
    /\ commands # <<>>
    /\ LET c == Head(commands)
       IN  /\ commands' = Tail(commands)
           /\ applied' = Append(applied, c)
           /\ IF c.op = "insert"
              THEN /\ world' = [world EXCEPT
                                 ![c.entity] = ApplyInsert(world[c.entity], c.bundle)]
                   /\ materialized' = materialized \cup
                        {meshReq[h] : h \in {c.bundle.mesh} \cap DOMAIN meshReq}
                   /\ UNCHANGED <<descReq, consumed>>
              ELSE /\ world' = [world EXCEPT ![c.entity].desc = NoDesc]
                   /\ descReq' = [descReq EXCEPT ![c.entity] = 0]
                   /\ consumed' = consumed \cup ({descReq[c.entity]} \ {0})
                   /\ UNCHANGED materialized
    /\ UNCHANGED <<frame, stageIdx, pc, meshes, tessellator, locals, requests, calls,
                   meshReq, passStart, passHandles, shapeRuns>>
    /\ UNCHANGED <<active, drawVars>>

\* The current stage is over; the next stage, or the next frame, begins.
StageEnd ==
    /\ \/ pc = "stage" /\ Stage # SHAPE
       \/ pc = "apply" /\ commands = <<>>
    /\ IF stageIdx < Len(Schedule)
       THEN /\ stageIdx' = stageIdx + 1
            /\ UNCHANGED <<frame, shapeRuns>>
       ELSE /\ frame < MaxFrames
            /\ frame' = frame + 1
            /\ stageIdx' = 1
            /\ shapeRuns' = 0
    /\ pc' = "stage"
    /\ UNCHANGED <<world, meshes, tessellator, commands, locals, descReq, requests,
                   calls, meshReq, applied, passStart, passHandles, materialized,
                   consumed>>
    /\ UNCHANGED <<active, drawVars>>

Next ==
    \/ \E e \in Entities, inp \in DrawInputs : UserDraw(e, inp)
    \/ SystemStart
    \/ LoopNext
    \/ TessellateCall
    \/ Tessellate
    \/ Finish
    \/ SystemReturn
    \/ ApplyCommand
    \/ StageEnd

Spec == Init /\ [][Next]_vars

\* ------------------------------------------------------------------ vocabulary of the claims
\* The system has returned and every command it queued has been applied.
PassComplete == pc = "apply" /\ commands = <<>>

\* The pass has stopped: it completed, or a panic aborted it.
PassStopped == PassComplete \/ pc = "panicked"

\* Between the start of shapesprite_maker and the end of the SHAPE stage.
InPass == pc \in {"loop", "tess", "incall", "built", "apply", "panicked"}

\* Stages and systems other than the materializer can observe the world.
Observable == pc = "stage"

HeldAtStart(e) == passStart.world[e].desc # NoDesc

InsertsApplied(e) ==
    Cardinality({i \in DOMAIN applied :
                    applied[i].op = "insert" /\ applied[i].entity = e})

MaterializedInPass(e) ==
    /\ world[e].desc = NoDesc
    /\ world[e].bundle # NoBundle
    /\ world[e].bundle.mesh \in passHandles
    /\ world[e].bundle.mesh \in DOMAIN meshes

CallsFor(r) == {i \in DOMAIN calls : calls[i].req = r}
MeshesFor(r) == {h \in DOMAIN meshReq : meshReq[h] = r}
FailedInPass ==
    {calls[i].entity : i \in {j \in DOMAIN calls : calls[j].frame = frame /\ ~calls[j].ok}}

ShapeIdx == StageIndex(Schedule, SHAPE)

\* The buffers a descriptor tessellates to on its own, from empty buffers
\* and a new tessellator.
ReferenceBuffers(desc) ==
    LET p == generate_path(desc.shape)
    IN  IF desc.mode.tag = "Fill"
        THEN FillTessellate(<<>>, p, desc.mode.options, EmptyBuffers).buffers
        ELSE StrokeTessellate(<<>>, p, desc.mode.options, EmptyBuffers).buffers

\* ------------------------------------------------------------------ C1
\* C1: every entity that held a ShapeDescriptor when the pass started holds,
\* once the pass (system and its commands) is complete, no ShapeDescriptor
\* and one SpriteBundle, inserted exactly once, whose mesh handle was
\* returned by meshes.add during that pass.
C1_Completeness ==
    PassComplete =>
        \A e \in Entities :
            HeldAtStart(e) => MaterializedInPass(e) /\ InsertsApplied(e) = 1

C1_Witness ==
    /\ PassComplete
    /\ \E e \in Entities : HeldAtStart(e) /\ MaterializedInPass(e)

\* ------------------------------------------------------------------ C2
\* C2: when tessellation fails for one entity, the pass still materializes
\* every other entity that held a ShapeDescriptor when it started.
C2_FailureIsolated ==
    PassStopped =>
        \A f \in FailedInPass :
            \A e \in Entities \ {f} : HeldAtStart(e) => MaterializedInPass(e)

\* ------------------------------------------------------------------ C3
\* C3: a request is tessellated at most once and gets at most one mesh, and
\* once its bundle is inserted no entity holds its descriptor again at any
\* point between stages.
C3_AtMostOnce ==
    \A r \in DOMAIN requests :
        /\ Cardinality(CallsFor(r)) <= 1
        /\ Cardinality(MeshesFor(r)) <= 1
        /\ (r \in materialized /\ Observable) => \A e \in Entities : descReq[e] # r

C3_Witness ==
    /\ PassComplete
    /\ \E r \in materialized : requests[r].frame < frame /\ requests[r].stage = UPDATE

\* ------------------------------------------------------------------ C4
Superseded(r) ==
    \E r2 \in DOMAIN requests :
        /\ r2 > r
        /\ requests[r2].entity = requests[r].entity
        /\ requests[r2].frame = requests[r].frame
        /\ requests[r2].stage = requests[r].stage

AttachedInUpdateOfFrame(r) == requests[r].frame = frame /\ requests[r].stage = UPDATE

\* C4: SHAPE comes after UPDATE and has run exactly once when a later stage
\* of the frame runs (and not at all before); in the stages after SHAPE no
\* entity holds a descriptor attached during UPDATE of that frame, and the
\* entity holds the bundle made from it.
C4_SameFrame ==
    /\ StageIndex(Schedule, UPDATE) < ShapeIdx
    /\ shapeRuns <= 1
    /\ (Observable /\ stageIdx <= ShapeIdx) => shapeRuns = 0
    /\ (Observable /\ stageIdx > ShapeIdx) =>
        /\ shapeRuns = 1
        /\ \A r \in DOMAIN requests :
            AttachedInUpdateOfFrame(r) =>
                /\ \A e \in Entities : descReq[e] # r
                /\ ~Superseded(r) =>
                    LET b == world[requests[r].entity].bundle
                    IN  /\ r \in materialized
                        /\ b.mesh \in DOMAIN meshReq
                        /\ meshReq[b.mesh] = r

C4_Witness ==
    /\ Observable
    /\ stageIdx > ShapeIdx
    /\ \E r \in materialized : AttachedInUpdateOfFrame(r)

\* ------------------------------------------------------------------ C5
\* C5: whenever another stage or system can observe the world, no entity
\* holds both a descriptor and the bundle made from it, and every entity
\* whose descriptor was consumed holds a bundle.
C5_Atomic ==
    Observable =>
        /\ \A e \in Entities :
            ~ /\ world[e].desc # NoDesc
              /\ world[e].bundle # NoBundle
              /\ world[e].bundle.mesh \in DOMAIN meshReq
              /\ meshReq[world[e].bundle.mesh] = descReq[e]
        /\ \A r \in consumed : world[requests[r].entity].bundle # NoBundle

C5_Witness == Observable /\ consumed # {}

\* ------------------------------------------------------------------ C6
NoCommandFor(e) ==
    /\ \A i \in DOMAIN commands : commands[i].entity # e
    /\ \A i \in DOMAIN applied : applied[i].entity # e

\* C6: during and after a pass, an entity that held no descriptor when the
\* pass started has its components unchanged, no command, no tessellation
\* call and no mesh; a pass over a world without descriptors leaves the
\* registry and the world unchanged.
C6_NoOp ==
    InPass =>
        /\ \A e \in Entities :
            ~HeldAtStart(e) =>
                /\ world[e] = passStart.world[e]
                /\ NoCommandFor(e)
                /\ cur # e
                /\ \A i \in DOMAIN calls :
                    calls[i].frame = frame => calls[i].entity # e
        /\ \A h \in (passStart.meshes + 1)..Len(meshes) :
            \E e \in Entities : HeldAtStart(e) /\ meshReq[h] = passStart.descReq[e]
        /\ (\A e \in Entities : ~HeldAtStart(e)) =>
            /\ Len(meshes) = passStart.meshes
            /\ world = passStart.world
            /\ commands = <<>>

C6_Witness ==
    /\ PassComplete
    /\ \E e, e2 \in Entities :
        /\ ~HeldAtStart(e)
        /\ world[e].bundle # NoBundle
        /\ HeldAtStart(e2)

\* ------------------------------------------------------------------ C7
\* C7: whatever the enumeration order, the mesh registered for a request is
\* the one its own shape and mode tessellate to from empty buffers, and a
\* queued or attached bundle refers to that mesh.
C7_OrderIndependent ==
    /\ \A h \in DOMAIN meshes :
        meshReq[h] \in DOMAIN requests =>
            meshes[h] = build_mesh(ReferenceBuffers(requests[meshReq[h]].desc))
    /\ \A e \in Entities :
        (world[e].bundle # NoBundle /\ world[e].bundle.mesh \in DOMAIN meshReq) =>
            requests[meshReq[world[e].bundle.mesh]].entity = e

C7_Witness == PassComplete /\ Cardinality(passHandles) >= 2

\* ------------------------------------------------------------------ C8
ModeEngine(mode) == IF mode.tag = "Fill" THEN "fill" ELSE "stroke"

\* C8: every tessellate_path call for a request is made on the engine of
\* the request's mode with the mode's options, a request whose mesh was
\* registered had exactly one call, and an engine never called keeps its
\* initial state.
C8_Dispatch ==
    /\ \A r \in DOMAIN requests :
        /\ \A i \in CallsFor(r) :
            /\ calls[i].engine = ModeEngine(requests[r].desc.mode)
            /\ calls[i].options = requests[r].desc.mode.options
        /\ MeshesFor(r) # {} => Cardinality(CallsFor(r)) = 1
    /\ (\A i \in DOMAIN calls : calls[i].engine = "fill") => tessellator.stroke = <<>>
    /\ (\A i \in DOMAIN calls : calls[i].engine = "stroke") => tessellator.fill = <<>>

C8_Witness ==
    /\ \E i \in DOMAIN calls : calls[i].engine = "fill"
    /\ \E i \in DOMAIN calls : calls[i].engine = "stroke"

\* ------------------------------------------------------------------ C9
\* C9: the bundle an entity holds has the material and the transform of the
\* entity's own draw call, size (1, 1), and a handle of the mesh built from
\* the buffers its own path tessellates to.
C9_OwnData ==
    \A e \in Entities :
        world[e].bundle # NoBundle =>
            LET b == world[e].bundle
            IN  /\ b.mesh \in DOMAIN meshes
                /\ meshReq[b.mesh] \in DOMAIN requests
                /\ LET q == requests[meshReq[b.mesh]]
                   IN  /\ q.entity = e
                       /\ b.material = q.desc.material
                       /\ b.transform = q.desc.transform
                       /\ b.size = <<1, 1>>
                       /\ meshes[b.mesh] = build_mesh(ReferenceBuffers(q.desc))

\* The rectangle of width 2 and height 1, filled, identity transform: 4
\* vertices and 6 indices; and another entity drawn with another transform.
C9_Witness ==
    \E e, e2 \in Entities :
        /\ world[e].bundle # NoBundle
        /\ requests[meshReq[world[e].bundle.mesh]].desc
              = draw(Rectangle(2, 1), 1, Fill(1), IDENTITY)
        /\ world[e].bundle.transform = IDENTITY
        /\ Len(meshes[world[e].bundle.mesh].positions) = 4
        /\ Len(meshes[world[e].bundle.mesh].indices) = 6
        /\ world[e2].bundle # NoBundle
        /\ world[e2].bundle.transform # IDENTITY

\* ------------------------------------------------------------------ C10
\* C10: a request whose tessellation failed has no mesh registered, no
\* bundle inserted and no command queued: the entity's bundle is the one it
\* had when the pass started.
C10_FailedNeverMaterialized ==
    \A i \in DOMAIN calls :
        ~calls[i].ok =>
            /\ calls[i].req \notin materialized
            /\ MeshesFor(calls[i].req) = {}
            /\ calls[i].frame = frame =>
                /\ world[calls[i].entity].bundle = passStart.world[calls[i].entity].bundle
                /\ NoCommandFor(calls[i].entity)

C10_Witness ==
    \E i \in DOMAIN calls :
        /\ ~calls[i].ok
        /\ world[calls[i].entity].desc # NoDesc
        /\ pc = "panicked"

\* ------------------------------------------------------------------ C11
CallsInFrame(e) == {i \in DOMAIN calls : calls[i].frame = frame /\ calls[i].entity = e}

\* C11: at most one tessellate_path call is in progress, and only while the
\* system is inside it for the current entity; when a call begins, the call
\* of every entity enumerated before has returned and no entity still to be
\* enumerated has had one; every call is made by the system for an entity
\* of its query, and none is in progress outside the pass.
C11_Exclusive ==
    /\ Cardinality(active) <= 1
    /\ active # {} <=> pc = "incall"
    /\ \A a \in active :
        /\ a.entity = cur
        /\ HeldAtStart(cur)
        /\ cur \notin todo
        /\ CallsInFrame(cur) = {}
    /\ InPass =>
        /\ \A e \in todo : CallsInFrame(e) = {}
        /\ pc \in {"tess", "incall"} =>
            \A e \in Entities :
                (HeldAtStart(e) /\ e \notin todo /\ e # cur) =>
                    Cardinality(CallsInFrame(e)) = 1
    /\ \A i \in DOMAIN calls :
        /\ calls[i].req \in DOMAIN requests
        /\ requests[calls[i].req].entity = calls[i].entity

C11_Witness ==
    /\ pc = "incall"
    /\ active # {}
    /\ \E e \in Entities : e # cur /\ CallsInFrame(e) # {}

\* ------------------------------------------------------------------ draw, on shape objects
\* The values a user's Rectangle takes, and the arguments draw is called with.
ShapeValues == {Rectangle(w, h) : w \in 0..2, h \in 0..2}
Materials == {1, 2}
Modes == {Fill(1), Fill(2), Stroke(1), Stroke(2)}
Transforms == {IDENTITY, "t1"}

BoxAliasSelf(h, value) == [heap |-> h, addr |-> 1]

\* Box::new(value): the value gets a heap cell of its own.
BoxNew(h, value) == [heap |-> Append(h, value), addr |-> Len(h) + 1]

\* The descriptor as the system reads it: the box is dereferenced.
DescriptorAt(h, p) ==
    [shape |-> h[p.shape], material |-> p.material, mode |-> p.mode,
     transform |-> p.transform]

\* self.draw(material, mode, transform) on the user's shape (address 1).
DrawCall(material, mode, transform) ==
    /\ pending = NoPending
    /\ LET d == draw(heap[1], material, mode, transform)
           box == BoxNew(heap, d.shape)
       IN  /\ heap' = box.heap
           /\ pending' = [shape |-> box.addr, material |-> d.material,
                          mode |-> d.mode, transform |-> d.transform]
           /\ drawn' = [self |-> heap[1], after |-> box.heap[1],
                        material |-> material, mode |-> mode, transform |-> transform]
    /\ UNCHANGED mainVars

\* The user changes the shape draw was called on.
MutateShape(w, h) ==
    /\ Rectangle(w, h) # heap[1]
    /\ heap' = [heap EXCEPT ![1] = Rectangle(w, h)]
    /\ UNCHANGED <<mainVars, pending, drawn>>

\* The returned descriptor is consumed and its box dropped.
DropDescriptor ==
    /\ pending # NoPending
    /\ heap' = SubSeq(heap, 1, 1)
    /\ pending' = NoPending
    /\ drawn' = NoDrawn
    /\ UNCHANGED mainVars

InitDraw ==
    /\ InitWorld
    /\ heap \in {<<v>> : v \in ShapeValues}
    /\ pending = NoPending
    /\ drawn = NoDrawn

NextDraw ==
    \/ \E m \in Materials, mode \in Modes, t \in Transforms : DrawCall(m, mode, t)
    \/ \E w \in 0..2, h \in 0..2 : MutateShape(w, h)
    \/ DropDescriptor

SpecDraw == InitDraw /\ [][NextDraw]_vars

\* ------------------------------------------------------------------ C12
\* C12: the descriptor draw returned reads as the shape the receiver had
\* when draw was called with exactly the given material, mode and
\* transform, whatever the receiver was changed to since; its shape is a
\* cell of its own; draw left the receiver and the application's state as
\* they were.
C12_DrawPure ==
    /\ InitWorld
    /\ pending # NoPending =>
        /\ pending.shape # 1
        /\ pending.shape \in DOMAIN heap
        /\ DescriptorAt(heap, pending)
              = draw(drawn.self, drawn.material, drawn.mode, drawn.transform)
        /\ DescriptorAt(heap, pending).material = drawn.material
        /\ DescriptorAt(heap, pending).mode = drawn.mode
        /\ DescriptorAt(heap, pending).transform = drawn.transform
        /\ generate_path(DescriptorAt(heap, pending).shape) = generate_path(drawn.self)
        /\ drawn.after = drawn.self

C12_Witness ==
    /\ pending # NoPending
    /\ heap[1] # drawn.self
    /\ heap[pending.shape] = drawn.self

\* ------------------------------------------------------------------ C13
SameShapeAndMode(r1, r2) ==
    /\ requests[r1].desc.shape = requests[r2].desc.shape
    /\ requests[r1].desc.mode = requests[r2].desc.mode

\* C13: two requests with the same shape and the same mode, whichever
\* entities, passes and order they were processed in, get equal meshes and
\* the same tessellation outcome.
C13_Deterministic ==
    /\ \A h1, h2 \in DOMAIN meshes :
        (/\ meshReq[h1] \in DOMAIN requests
         /\ meshReq[h2] \in DOMAIN requests
         /\ SameShapeAndMode(meshReq[h1], meshReq[h2])) => meshes[h1] = meshes[h2]
    /\ \A i, j \in DOMAIN calls :
        (/\ calls[i].req \in DOMAIN requests
         /\ calls[j].req \in DOMAIN requests
         /\ SameShapeAndMode(calls[i].req, calls[j].req)) => calls[i].ok = calls[j].ok

C13_Witness ==
    \E h1, h2 \in DOMAIN meshes :
        /\ h1 # h2
        /\ SameShapeAndMode(meshReq[h1], meshReq[h2])
        /\ meshes[h1] = meshes[h2]

\* ------------------------------------------------------------------ C14
EnumeratedInPass == {e \in Entities : HeldAtStart(e) /\ e \notin todo}

\* C14: a failed tessellation is the last call ever made: the system has
\* panicked, no entity still to be enumerated has a call or a mesh, the
\* meshes of the pass are those of the entities enumerated before the
\* failing one, and no command of the pass is applied.
C14_AbortsOnFirstFailure ==
    \A i \in DOMAIN calls :
        ~calls[i].ok =>
            /\ i = Len(calls)
            /\ pc = "panicked"
            /\ calls[i].frame = frame
            /\ applied = <<>>
            /\ Len(meshes) - passStart.meshes = Cardinality(EnumeratedInPass) - 1
            /\ \A e \in todo :
                /\ CallsInFrame(e) = {}
                /\ MeshesFor(passStart.descReq[e]) = {}
                /\ world[e] = passStart.world[e]

C14_Witness ==
    /\ pc = "panicked"
    /\ todo # {}
    /\ \A e \in todo : world[e].desc # NoDesc /\ CallsInFrame(e) = {}

\* ------------------------------------------------------------------ C15
Iterating == pc \in {"loop", "tess", "incall", "built"}

\* C15: while the system iterates, the world is as it was when the pass
\* started and nothing is applied: the effects are queued, two commands per
\* finished entity, for finished entities only; each entity's buffers are
\* empty before its call and hold its own geometry after, and the path is
\* that of its own descriptor.
C15_Isolation ==
    Iterating =>
        /\ world = passStart.world
        /\ applied = <<>>
        /\ Len(commands) = 2 * (Len(meshes) - passStart.meshes)
        /\ \A i \in DOMAIN commands :
            commands[i].entity \in EnumeratedInPass /\ (pc # "loop" => commands[i].entity # cur)
        /\ pc \in {"tess", "incall"} => buffers = EmptyBuffers
        /\ pc \in {"tess", "incall", "built"} =>
            path = generate_path(passStart.world[cur].desc.shape)
        /\ pc = "built" => buffers = ReferenceBuffers(passStart.world[cur].desc)

C15_Witness ==
    /\ pc = "tess"
    /\ commands # <<>>
    /\ buffers = EmptyBuffers
    /\ world = passStart.world

\* ------------------------------------------------------------------ C16
BeforeShape(stage) == StageIndex(Schedule, stage) < ShapeIdx

\* C16: a descriptor is pending only until the end of the first SHAPE stage
\* after it was attached (this frame's if attached before SHAPE, the next
\* frame's otherwise): a completed pass leaves no descriptor pending, every
\* descriptor it found is materialized, and none is removed without its
\* bundle being inserted.
C16_Deadline ==
    /\ consumed \subseteq materialized
    /\ PassComplete =>
        \A e \in Entities :
            /\ descReq[e] = 0
            /\ world[e].desc = NoDesc
            /\ passStart.descReq[e] # 0 => passStart.descReq[e] \in materialized
    /\ \A e \in Entities :
        descReq[e] # 0 =>
            LET q == requests[descReq[e]]
            IN  IF BeforeShape(q.stage)
                THEN q.frame = frame /\ stageIdx <= ShapeIdx
                ELSE \/ q.frame = frame /\ stageIdx > ShapeIdx
                     \/ q.frame + 1 = frame /\ stageIdx <= ShapeIdx

C16_Witness ==
    /\ PassComplete
    /\ \E r \in materialized : requests[r].stage = POST_UPDATE /\ requests[r].frame + 1 = frame

\* ------------------------------------------------------------------ C17
BundleHandles == {world[e].bundle.mesh : e \in {x \in Entities : world[x].bundle # NoBundle}}

\* C17: a completed pass has registered one mesh per entity that held a
\* descriptor; between stages the registry holds as many meshes as
\* descriptors were consumed; every handle in use names a mesh of the
\* registry; no two bundles, attached or queued, share a handle.
C17_OneMeshPerDescriptor ==
    /\ PassComplete =>
        /\ Len(meshes) - passStart.meshes = Cardinality({e \in Entities : HeldAtStart(e)})
        /\ Cardinality(passHandles) = Len(meshes) - passStart.meshes
    /\ (Observable \/ PassComplete) => Len(meshes) = Cardinality(consumed)
    /\ Len(meshes) >= passStart.meshes
    /\ BundleHandles \subseteq DOMAIN meshes
    /\ \A e1, e2 \in Entities :
        (e1 # e2 /\ world[e1].bundle # NoBundle /\ world[e2].bundle # NoBundle) =>
            world[e1].bundle.mesh # world[e2].bundle.mesh
    /\ \A i \in DOMAIN commands :
        commands[i].op = "insert" =>
            /\ commands[i].bundle.mesh \notin BundleHandles
            /\ \A j \in DOMAIN commands :
                (j # i /\ commands[j].op = "insert") =>
                    commands[j].bundle.mesh # commands[i].bundle.mesh

C17_Witness ==
    /\ Observable
    /\ Len(meshes) = 2
    /\ Cardinality(BundleHandles) = 2

\* ------------------------------------------------------------------ C18
WasMaterialized(e) == HeldAtStart(e) /\ passStart.world[e].bundle # NoBundle

\* C18: an entity that held a bundle and a new descriptor when the pass
\* started holds, when the pass is complete, no descriptor and one bundle,
\* inserted once, with the new descriptor's material and transform and a
\* handle of this pass registered for the new request, not the old handle.
C18_Rematerialized ==
    PassComplete =>
        \A e \in Entities :
            WasMaterialized(e) =>
                LET d == passStart.world[e].desc
                    b == world[e].bundle
                IN  /\ world[e].desc = NoDesc
                    /\ InsertsApplied(e) = 1
                    /\ b # NoBundle
                    /\ b.material = d.material
                    /\ b.transform = d.transform
                    /\ b.size = <<1, 1>>
                    /\ b.mesh \in passHandles
                    /\ b.mesh # passStart.world[e].bundle.mesh
                    /\ meshReq[b.mesh] = passStart.descReq[e]

C18_Witness ==
    /\ PassComplete
    /\ \E e \in Entities :
        /\ WasMaterialized(e)
        /\ world[e].bundle.material # passStart.world[e].bundle.material
        /\ world[e].bundle.transform # passStart.world[e].bundle.transform

====
